---- MODULE Spec2Model ----
(***************************************************************************)
(* A model of history-analyzer.py: the Command usage record and its        *)
(* derivations, the fish-history parser, the run from read to render, and  *)
(* the calendar renderer.                                                  *)
(*                                                                         *)
(* Python values are modelled as follows.                                  *)
(*   str        a TLA+ string (Len, SubSeq and \o act on its characters)   *)
(*   list       a sequence                                                 *)
(*   None/Some  <<>> and <<v>>                                             *)
(*   datetime   [day |-> proleptic Gregorian ordinal, sec |-> second of    *)
(*              the day]; a date is its ordinal                            *)
(*   Counter    a function from the keys present to their counts           *)
(*   the lists and Counters a Command holds are objects on `heap`, and a   *)
(*   Command's fields hold references to them, as in Python                *)
(***************************************************************************)
EXTENDS Integers, Sequences, FiniteSets, TLC

VARIABLES
    heap,       \* reference -> the list or Counter stored there
    cmds,       \* Command objects under test: "src" and, once derived, "der"
    pc,         \* position of the run (main) or of print_calendar
    file,       \* the history file: <<>> when missing, else <<raw lines>>
    lines,      \* what read_history_file returned
    line_num,   \* parse_commands: index (0-based) of the next line to scan
    commands,   \* parse_commands: name -> Command
    kept,       \* analyze_commands: kept_commands, name -> Command
    usage,      \* the aggregate Counters handed to the reporting functions
    window,     \* [start, end, now]: the reporting window and the clock
    out,        \* what has been printed, a sequence of output items
    exc         \* the exception that ended the run: <<>> or <<[type, in]>>

vars == <<heap, cmds, pc, file, lines, line_num, commands, kept, usage, window, out, exc>>

(***************************************************************************)
(* Bounds of the model.                                                    *)
(***************************************************************************)
\* most uses a Command under test is given by add_use calls
MaxUses == 2
\* most lines a history file holds
MaxLines == 3
\* the calendar is rendered for the years FirstYear .. FirstYear + SpanYears
FirstYear == 2023
SpanYears == 6
\* references available on the heap
NumRefs == 20

Refs == 1..NumRefs

None == <<>>
Some(v) == <<v>>

Min(a, b) == IF a < b THEN a ELSE b

(***************************************************************************)
(* datetime: the part of the standard library the program uses.            *)
(***************************************************************************)
IsLeap(y) == (y % 4 = 0 /\ y % 100 # 0) \/ y % 400 = 0

DaysBeforeYear(y) ==
    LET p == y - 1 IN p * 365 + p \div 4 - p \div 100 + p \div 400

DaysInMonth(y, m) ==
    IF m = 2 THEN (IF IsLeap(y) THEN 29 ELSE 28)
    ELSE IF m \in {4, 6, 9, 11} THEN 30 ELSE 31

RECURSIVE DaysBeforeMonth(_, _)
DaysBeforeMonth(y, m) ==
    IF m = 1 THEN 0 ELSE DaysBeforeMonth(y, m - 1) + DaysInMonth(y, m - 1)

\* date(y, m, d).toordinal()
Ymd2Ord(y, m, d) == DaysBeforeYear(y) + DaysBeforeMonth(y, m) + d

\* date.fromordinal(n).year
Ord2Year(n) ==
    LET hi == (n - 1) \div 365 + 1
    IN  CHOOSE y \in (hi - 3)..hi : DaysBeforeYear(y) < n /\ n <= DaysBeforeYear(y + 1)

\* date.fromordinal(n).month
Ord2Month(n) ==
    LET y == Ord2Year(n)
        k == n - DaysBeforeYear(y)
    IN  CHOOSE m \in 1..12 :
            DaysBeforeMonth(y, m) < k /\ k <= DaysBeforeMonth(y, m) + DaysInMonth(y, m)

\* datetime(y, m, d, hh, mm, ss)
datetime(y, m, d, hh, mm, ss) ==
    [day |-> Ymd2Ord(y, m, d), sec |-> hh * 3600 + mm * 60 + ss]

\* a < b on datetimes
DtLess(a, b) == a.day < b.day \/ (a.day = b.day /\ a.sec < b.sec)
DtLeq(a, b) == a = b \/ DtLess(a, b)

\* t.date(), t.hour, t.year, t.month
DateOf(t) == t.day
HourOf(t) == t.sec \div 3600
YearOf(t) == Ord2Year(t.day)
MonthOf(t) == Ord2Month(t.day)

\* t.weekday(): Monday is 0 and Sunday is 6
weekday(t) == (t.day + 6) % 7

\* t + timedelta(days=k)
PlusDays(t, k) == [t EXCEPT !.day = @ + k]

\* datetime.fromtimestamp(n), the local zone taken to be UTC
EpochDay == Ymd2Ord(1970, 1, 1)
fromtimestamp(n) == [day |-> EpochDay + n \div 86400, sec |-> n % 86400]

(***************************************************************************)
(* collections.Counter                                                     *)
(***************************************************************************)
Counter == <<>>

\* c[k], which is 0 for a missing key and does not insert it
CounterGet(c, k) == IF k \in DOMAIN c THEN c[k] ELSE 0

\* c[k] += 1
CounterInc(c, k) ==
    [x \in DOMAIN c \cup {k} |-> IF x = k THEN CounterGet(c, k) + 1 ELSE c[x]]

\* a += b (and a + b): the keys whose summed count is positive
CounterAdd(a, b) ==
    [x \in {k \in DOMAIN a \cup DOMAIN b : CounterGet(a, k) + CounterGet(b, k) > 0}
        |-> CounterGet(a, x) + CounterGet(b, x)]

RECURSIVE SumOver(_, _)
SumOver(c, ks) ==
    IF ks = {} THEN 0
    ELSE LET k == CHOOSE x \in ks : TRUE IN c[k] + SumOver(c, ks \ {k})

\* sum(c.values())
CounterSum(c) == SumOver(c, DOMAIN c)

\* c.most_common(1): [] for an empty Counter, else [(key, highest count)]
MostCommonCount(c) ==
    IF DOMAIN c = {} THEN None
    ELSE Some(CHOOSE v \in {c[k] : k \in DOMAIN c} : \A k \in DOMAIN c : c[k] <= v)

(***************************************************************************)
(* class Command                                                           *)
(***************************************************************************)
\* the references a Command holds
CmdRefs(c) == {c.uses, c.calendar_usage, c.weekly_usage, c.hourly_usage, c.flags}

RECURSIVE LowestFree(_, _, _)
LowestFree(live, n, from) ==
    IF n = 0 THEN <<>>
    ELSE LET r == CHOOSE x \in Refs : x >= from /\ x \notin live
                                      /\ \A z \in from..(x - 1) : z \in live
         IN  <<r>> \o LowestFree(live, n - 1, r + 1)

\* a Command whose containers are the five references r
CommandAt(name, r) ==
    [name |-> name, count |-> 0, uses |-> r[1], most_recent_use |-> None,
     calendar_usage |-> r[2], weekly_usage |-> r[3], hourly_usage |-> r[4],
     flags |-> r[5]]

\* Command.__init__: five fresh containers, all empty. `live` are the
\* references still held by some object.
Command(h, live, name) ==
    LET r == LowestFree(live, 5, 1)
    IN  [heap |-> [h EXCEPT ![r[1]] = <<>>, ![r[2]] = Counter, ![r[3]] = Counter,
                            ![r[4]] = Counter, ![r[5]] = Counter],
         cmd |-> CommandAt(name, r)]

\* Command._get_flags
RECURSIVE _get_flags(_)
_get_flags(argument_list) ==
    IF argument_list = <<>> THEN Counter
    ELSE LET argument == argument_list[Len(argument_list)]
             flags == _get_flags(SubSeq(argument_list, 1, Len(argument_list) - 1))
         IN  IF SubSeq(argument, 1, 1) = "-" /\ Len(argument) > 1
             THEN CounterInc(flags, argument)
             ELSE flags

\* add_use storing 1 in the calendar bucket where the code adds 1 to it
add_use_calendar_reset(h, self, time, arguments) ==
    LET h1 == [h  EXCEPT ![self.uses] = Append(@, <<time, arguments>>)]
        h2 == [h1 EXCEPT ![self.calendar_usage] =
                  [x \in DOMAIN @ \cup {DateOf(time)} |-> IF x = DateOf(time) THEN 1 ELSE @[x]]]
        h3 == [h2 EXCEPT ![self.weekly_usage] = CounterInc(@, weekday(time))]
        h4 == [h3 EXCEPT ![self.hourly_usage] = CounterInc(@, HourOf(time))]
        h5 == [h4 EXCEPT ![self.flags] = CounterAdd(@, _get_flags(arguments))]
        mru == IF self.most_recent_use = None \/ DtLess(self.most_recent_use[1], time)
               THEN Some(time)
               ELSE self.most_recent_use
    IN  [heap |-> h5,
         cmd  |-> [self EXCEPT !.count = @ + 1, !.most_recent_use = mru]]

\* add_use taking every new timestamp as the most recent one
add_use_last_wins(h, self, time, arguments) ==
    LET h1 == [h  EXCEPT ![self.uses] = Append(@, <<time, arguments>>)]
        h2 == [h1 EXCEPT ![self.calendar_usage] = CounterInc(@, DateOf(time))]
        h3 == [h2 EXCEPT ![self.weekly_usage] = CounterInc(@, weekday(time))]
        h4 == [h3 EXCEPT ![self.hourly_usage] = CounterInc(@, HourOf(time))]
        h5 == [h4 EXCEPT ![self.flags] = CounterAdd(@, _get_flags(arguments))]
    IN  [heap |-> h5,
         cmd  |-> [self EXCEPT !.count = @ + 1, !.most_recent_use = Some(time)]]

\* Command.add_use: the heap and the Command after the call
add_use(h, self, time, arguments) ==
    LET h1 == [h  EXCEPT ![self.uses] = Append(@, <<time, arguments>>)]
        h2 == [h1 EXCEPT ![self.calendar_usage] = CounterInc(@, DateOf(time))]
        h3 == [h2 EXCEPT ![self.weekly_usage] = CounterInc(@, weekday(time))]
        h4 == [h3 EXCEPT ![self.hourly_usage] = CounterInc(@, HourOf(time))]
        h5 == [h4 EXCEPT ![self.flags] = CounterAdd(@, _get_flags(arguments))]
        mru == IF self.most_recent_use = None \/ DtLess(self.most_recent_use[1], time)
               THEN Some(time)
               ELSE self.most_recent_use
    IN  [heap |-> h5,
         cmd  |-> [self EXCEPT !.count = @ + 1, !.most_recent_use = mru]]

\* the loop of get_uses_from_date over self.uses, from index i (1-based)
RECURSIVE FilterLoop(_, _, _, _, _, _)
FilterLoop(h, self, new_cmd, date, stop_date, i) ==
    IF i > Len(h[self.uses]) THEN [heap |-> h, cmd |-> new_cmd]
    ELSE LET use == h[self.uses][i]
         IN  IF DtLeq(date, use[1]) /\ DtLeq(use[1], stop_date)
             THEN LET a == add_use(h, new_cmd, use[1], use[2])
                  IN  FilterLoop(a.heap, self, a.cmd, date, stop_date, i + 1)
             ELSE FilterLoop(h, self, new_cmd, date, stop_date, i + 1)

\* list.sort(key = lambda x: x[0]): stable, ascending by timestamp
RECURSIVE SortedByTime(_)
SortedByTime(s) ==
    IF s = <<>> THEN <<>>
    ELSE LET rest == SortedByTime(SubSeq(s, 1, Len(s) - 1))
             x == s[Len(s)]
             k == Cardinality({j \in 1..Len(rest) : DtLeq(rest[j][1], x[1])})
         IN  SubSeq(rest, 1, k) \o <<x>> \o SubSeq(rest, k + 1, Len(rest))

\* Command._sort_uses: sorts the list in place
_sort_uses(h, self) == [h EXCEPT ![self.uses] = SortedByTime(@)]

\* s[start:] for a Python list
SliceFrom(s, start) ==
    LET n == Len(s)
        lo == IF start < 0 THEN (IF n + start < 0 THEN 0 ELSE n + start)
              ELSE (IF start > n THEN n ELSE start)
    IN  SubSeq(s, lo + 1, n)

\* the loop of get_last_n_uses over the slice
RECURSIVE AddAll(_, _, _, _)
AddAll(h, new_cmd, uses, i) ==
    IF i > Len(uses) THEN [heap |-> h, cmd |-> new_cmd]
    ELSE LET a == add_use(h, new_cmd, uses[i][1], uses[i][2])
         IN  AddAll(a.heap, a.cmd, uses, i + 1)

\* a variant that sorts the source record first, as get_last_n_uses does
get_uses_from_date_sorting(h, live, self, date, stop_date, now) ==
    LET stop == IF stop_date = None THEN now ELSE stop_date[1]
        hs == _sort_uses(h, self)
        c == Command(hs, live, self.name)
        r == FilterLoop(c.heap, self, c.cmd, date, stop, 1)
    IN  [heap |-> r.heap, cmd |-> [r.cmd EXCEPT !.most_recent_use = self.most_recent_use]]

\* Command.get_uses_from_date: the heap after the call and the Command returned
get_uses_from_date(h, live, self, date, stop_date, now) ==
    LET stop == IF stop_date = None THEN now ELSE stop_date[1]
        c == Command(h, live, self.name)
        r == FilterLoop(c.heap, self, c.cmd, date, stop, 1)
    IN  [heap |-> r.heap, cmd |-> [r.cmd EXCEPT !.most_recent_use = self.most_recent_use]]

\* Command.get_last_n_uses: the heap after the call and the Command returned
get_last_n_uses(h, live, self, n_uses) ==
    LET hs == _sort_uses(h, self)
        c == Command(hs, live, self.name)
        uses == SliceFrom(hs[self.uses], 0 - n_uses)
        r == AddAll(c.heap, c.cmd, uses, 1)
    IN  [heap |-> r.heap, cmd |-> [r.cmd EXCEPT !.most_recent_use = self.most_recent_use]]

\* a Command with its containers read off the heap
View(h, c) ==
    [name |-> c.name, count |-> c.count, uses |-> h[c.uses],
     most_recent_use |-> c.most_recent_use,
     calendar_usage |-> h[c.calendar_usage], weekly_usage |-> h[c.weekly_usage],
     hourly_usage |-> h[c.hourly_usage], flags |-> h[c.flags]]

(***************************************************************************)
(* str and int                                                             *)
(***************************************************************************)
\* s.startswith(p)
startswith(s, p) == Len(s) >= Len(p) /\ SubSeq(s, 1, Len(p)) = p

\* s[k:] for a string and k >= 0
StrFrom(s, k) == IF k >= Len(s) THEN "" ELSE SubSeq(s, k + 1, Len(s))

IsSpace(c) == c = " "

\* s.lstrip(), s.rstrip(), s.strip()
RECURSIVE lstrip(_)
lstrip(s) == IF Len(s) > 0 /\ IsSpace(SubSeq(s, 1, 1)) THEN lstrip(StrFrom(s, 1)) ELSE s
RECURSIVE rstrip(_)
rstrip(s) ==
    IF Len(s) > 0 /\ IsSpace(SubSeq(s, Len(s), Len(s)))
    THEN rstrip(SubSeq(s, 1, Len(s) - 1))
    ELSE s
strip(s) == rstrip(lstrip(s))

\* the length of the first whitespace-free run of s
RECURSIVE WordLen(_)
WordLen(s) ==
    IF Len(s) = 0 \/ IsSpace(SubSeq(s, 1, 1)) THEN 0 ELSE 1 + WordLen(StrFrom(s, 1))

\* s.split(): the whitespace-separated words of s
RECURSIVE split(_)
split(s) ==
    LET t == lstrip(s)
    IN  IF t = "" THEN <<>>
        ELSE <<SubSeq(t, 1, WordLen(t))>> \o split(StrFrom(t, WordLen(t)))

IsDigit(c) == \E d \in 0..9 : SubSeq("0123456789", d + 1, d + 1) = c
DigitVal(c) == CHOOSE d \in 0..9 : SubSeq("0123456789", d + 1, d + 1) = c

RECURSIVE AllDigits(_)
AllDigits(s) == Len(s) = 0 \/ (IsDigit(SubSeq(s, 1, 1)) /\ AllDigits(StrFrom(s, 1)))

RECURSIVE DigitsVal(_)
DigitsVal(s) ==
    IF Len(s) = 0 THEN 0
    ELSE DigitsVal(SubSeq(s, 1, Len(s) - 1)) * 10 + DigitVal(SubSeq(s, Len(s), Len(s)))

\* int(s): the number as Some(n), or None where int raises ValueError.
\* Surrounding whitespace and one sign are accepted; the digit-group
\* underscores int also accepts are not modelled.
int(s) ==
    LET t == strip(s)
        signed == Len(t) > 0 /\ SubSeq(t, 1, 1) \in {"+", "-"}
        digits == IF signed THEN StrFrom(t, 1) ELSE t
    IN  IF Len(digits) = 0 \/ ~AllDigits(digits) THEN None
        ELSE IF signed /\ SubSeq(t, 1, 1) = "-" THEN Some(0 - DigitsVal(digits))
        ELSE Some(DigitsVal(digits))

(***************************************************************************)
(* parse_commands                                                          *)
(***************************************************************************)
\* the index in the dict (a sequence of Commands in insertion order, keyed
\* by name) of the entry for `name`, or 0
DictIndex(dict, name) ==
    IF \E i \in 1..Len(dict) : dict[i].name = name
    THEN CHOOSE i \in 1..Len(dict) : dict[i].name = name
    ELSE 0

Raised(type, where) == Some([type |-> type, where |-> where])

\* one iteration of the loop of parse_commands, on line line_num (0-based):
\* the heap and the dict after it, and the exception it raised if any
parse_line(h, dict, all_lines, n) ==
    LET line == all_lines[n + 1]
        same == [heap |-> h, commands |-> dict, exc |-> None]
    IN  IF ~startswith(line, "- cmd: ") THEN same
        ELSE IF n + 1 >= Len(all_lines)
        THEN [same EXCEPT !.exc = Raised("IndexError", "parse_commands")]
        ELSE LET stamp == int(StrFrom(all_lines[n + 2], 6))
                 full_cmd == split(StrFrom(line, 7))
             IN  IF stamp = None
                 THEN [same EXCEPT !.exc = Raised("ValueError", "parse_commands")]
                 ELSE IF full_cmd = <<>>
                 THEN [same EXCEPT !.exc = Raised("IndexError", "parse_commands")]
                 ELSE LET when == fromtimestamp(stamp[1])
                          cmd == full_cmd[1]
                          arguments == Tail(full_cmd)
                          live == UNION {CmdRefs(dict[i]) : i \in 1..Len(dict)}
                          fresh == Command(h, live, cmd)
                          known == DictIndex(dict, cmd) # 0
                          d1 == IF known THEN dict ELSE Append(dict, fresh.cmd)
                          h1 == IF known THEN h ELSE fresh.heap
                          k == DictIndex(d1, cmd)
                          a == add_use(h1, d1[k], when, arguments)
                     IN  [heap |-> a.heap, commands |-> [d1 EXCEPT ![k] = a.cmd],
                          exc |-> None]

\* read_history_file: the stripped non-empty lines, [] for a missing file
RECURSIVE StripAll(_)
StripAll(raw) ==
    IF raw = <<>> THEN <<>>
    ELSE (IF strip(Head(raw)) = "" THEN <<>> ELSE <<strip(Head(raw))>>) \o StripAll(Tail(raw))
read_history_file(f) == IF f = None THEN <<>> ELSE StripAll(f[1])

(***************************************************************************)
(* The reporting functions                                                 *)
(***************************************************************************)
weekdays == <<"S", "M", "T", "W", "T", "F", "S">>
months == <<"J", "F", "M", "A", "M", "J", "J", "A", "S", "O", "N", "D">>
hours == <<"12AM", "1AM", "2AM", "3AM", "4AM", "5AM", "6AM", "7AM", "8AM", "9AM",
           "10AM", "11AM", "12PM", "1PM", "2PM", "3PM", "4PM", "5PM", "6PM", "7PM",
           "8PM", "9PM", "10PM", "11PM">>

\* the palette of color_strength, ESC standing for the escape character
colors == <<"ESC[38;2;38;38;38m", "ESC[38;2;45;59;45m", "ESC[38;2;51;81;52m",
            "ESC[38;2;55;104;58m", "ESC[38;2;57;127;69m", "ESC[38;2;55;152;69m",
            "ESC[38;2;55;176;73m", "ESC[38;2;49;202;76m", "ESC[38;2;36;228;79m",
            "ESC[38;2;0;255;81m">>
reset == "ESC[0m"

\* color_strength(string, num / den): the strength is a quotient of two
\* counts, den > 0; floor(strength * 9) is taken on the exact quotient,
\* which is what the float product gives for counts below 200
color_strength(string, num, den) ==
    LET index == IF num >= den THEN Len(colors) - 1
                 ELSE IF num <= 0 THEN 0
                 ELSE (num * (Len(colors) - 1)) \div den
    IN  colors[index + 1] \o string \o reset

\* round(width * 0.7 - 3), halves to the even neighbour
BarColumns(width) ==
    LET num == 7 * width - 30
        q == num \div 10
        r == num % 10
    IN  IF r > 5 \/ (r = 5 /\ q % 2 = 1) THEN q + 1 ELSE q

RECURSIVE Repeat(_, _)
Repeat(c, n) == IF n <= 0 THEN "" ELSE c \o Repeat(c, n - 1)

\* the lines print_week_usage and print_time_usage print for the buckets
\* 0 .. n-1: label, bar and count. floor(cols * freq) is taken on the exact
\* quotient, which is what the float product gives for counts below 22.
BarLines(bucket, labels, width, most_frequent) ==
    [k \in 1..Len(labels) |->
        [label |-> labels[k],
         bar |-> Repeat("#", (BarColumns(width) * CounterGet(bucket, k - 1)) \div most_frequent),
         cols |-> BarColumns(width),
         commands |-> CounterGet(bucket, k - 1)]]

\* print_week_usage: None where it raises IndexError, else the lines printed
print_week_usage(weekly_usage, width) ==
    IF MostCommonCount(weekly_usage) = None THEN None
    ELSE Some(BarLines(weekly_usage, weekdays, width, MostCommonCount(weekly_usage)[1]))

\* print_time_usage: None where it raises IndexError, else the lines printed
print_time_usage(hourly_usage, width) ==
    IF MostCommonCount(hourly_usage) = None THEN None
    ELSE Some(BarLines(hourly_usage, hours, width, MostCommonCount(hourly_usage)[1]))

\* math.ceil(a / b) for a >= 0, b > 0
CeilDiv(a, b) == (a + b - 1) \div b

\* the loop that builds first_row, from column `week`
RECURSIVE HeaderLoop(_, _, _, _, _, _)
HeaderLoop(year_start, offset, columns, week, month_index, first_row) ==
    IF week >= columns THEN first_row
    ELSE LET last_row == PlusDays(year_start, 7 + (7 * week) - offset)
         IN  IF MonthOf(last_row) > month_index
             THEN HeaderLoop(year_start, offset, columns, week + 1, month_index + 1,
                             first_row \o months[month_index + 1])
             ELSE HeaderLoop(year_start, offset, columns, week + 1, month_index,
                             first_row \o " ")

\* one cell of the grid: the day computed for it and the text printed
GridCell(calendar_usage, most_busy, year_start, year_end, offset, wd, week) ==
    LET day == PlusDays(year_start, wd + (7 * week) - offset)
    IN  [day |-> DateOf(day),
         text |-> IF DtLess(day, year_start) \/ DtLess(year_end, day) THEN " "
                  ELSE color_strength("#", CounterGet(calendar_usage, DateOf(day)), most_busy)]

\* the body of the loop over years of print_calendar, with `columns` given
YearBlock(calendar_usage, most_busy, year, columns) ==
    LET year_start == datetime(year, 1, 1, 0, 0, 0)
        year_end == datetime(year, 12, 31, 0, 0, 0)
        offset == weekday(year_start)
    IN  [year |-> year,
         first_row |-> HeaderLoop(year_start, offset, columns, 0, 0, "  "),
         rows |-> [r \in 1..7 |->
                     [label |-> weekdays[r],
                      cells |-> [w \in 1..columns |->
                                   GridCell(calendar_usage, most_busy, year_start, year_end,
                                            offset, r - 1, w - 1)]]],
         footer |-> Cardinality(DOMAIN calendar_usage)]

\* the year block with floor where the code takes the ceiling
print_calendar_year_floor(calendar_usage, most_busy, year) ==
    LET days == IF year % 4 = 0 THEN 366 ELSE 365
        offset == weekday(datetime(year, 1, 1, 0, 0, 0))
    IN  YearBlock(calendar_usage, most_busy, year, (days + offset) \div 7)

\* the body of the loop over years of print_calendar: what it prints
print_calendar_year(calendar_usage, most_busy, year) ==
    LET days == IF year % 4 = 0 THEN 366 ELSE 365
        offset == weekday(datetime(year, 1, 1, 0, 0, 0))
    IN  YearBlock(calendar_usage, most_busy, year, CeilDiv(days + offset, 7))

\* print_calendar: None where it raises IndexError, else the blocks printed
print_calendar(calendar_usage, start_datetime, end_datetime) ==
    IF MostCommonCount(calendar_usage) = None THEN None
    ELSE LET years == YearOf(end_datetime) - YearOf(start_datetime) + 1
         IN  Some([y \in 1..years |->
                     print_calendar_year(calendar_usage, MostCommonCount(calendar_usage)[1],
                                         YearOf(start_datetime) + y - 1)])

(***************************************************************************)
(* analyze_commands                                                        *)
(***************************************************************************)
\* the first loop of analyze_commands, from entry i of the dict
RECURSIVE KeepLoop(_, _, _, _, _, _)
KeepLoop(h, dict, kept_commands, start_datetime, end_datetime, i) ==
    IF i > Len(dict) THEN [heap |-> h, kept |-> kept_commands]
    ELSE LET live == UNION ({CmdRefs(dict[j]) : j \in 1..Len(dict)}
                            \cup {CmdRefs(kept_commands[j]) : j \in 1..Len(kept_commands)})
             res == get_uses_from_date(h, live, dict[i], start_datetime,
                                       Some(end_datetime), end_datetime)
         IN  IF Len(res.heap[res.cmd.uses]) > 0
             THEN KeepLoop(res.heap, dict, Append(kept_commands, res.cmd),
                           start_datetime, end_datetime, i + 1)
             ELSE KeepLoop(res.heap, dict, kept_commands, start_datetime, end_datetime, i + 1)

\* the second loop: the sum over the kept commands of one of their Counters
RECURSIVE SumCounters(_, _, _, _)
SumCounters(h, kept_commands, field, i) ==
    IF i = 0 THEN Counter
    ELSE CounterAdd(SumCounters(h, kept_commands, field, i - 1), h[kept_commands[i][field]])

\* every reference some Command of the state holds
Holders == {cmds[x] : x \in DOMAIN cmds} \cup {commands[x] : x \in DOMAIN commands}
           \cup {kept[x] : x \in DOMAIN kept}
Live == UNION {CmdRefs(c) : c \in Holders}

\* the heap once the containers no Command holds are reclaimed
Reclaim(h, live) == [x \in Refs |-> IF x \in live THEN h[x] ELSE <<>>]

EmptyHeap == [x \in Refs |-> <<>>]

(***************************************************************************)
(* The Command record under its own operations.                            *)
(***************************************************************************)
\* timestamps given to add_use and to the filters: a Sunday night, the
\* following midnight (the start date main uses) and that Monday morning
Times == {datetime(2024, 7, 14, 23, 0, 0), datetime(2024, 7, 15, 0, 0, 0),
          datetime(2024, 7, 15, 9, 30, 0)}
ArgLists == {<<>>, <<"-v", "x">>}

\* what datetime.now() returns: a time after every timestamp given
Clock == datetime(2024, 7, 16, 12, 0, 0)

InitRecord ==
    LET c == Command(EmptyHeap, {}, "git")
    IN  /\ heap = c.heap
        /\ cmds = [x \in {"src"} |-> c.cmd]
        /\ pc = "record"
        /\ file = None
        /\ lines = <<>>
        /\ line_num = 0
        /\ commands = <<>>
        /\ kept = <<>>
        /\ usage = <<>>
        /\ window = <<>>
        /\ out = <<>>
        /\ exc = None

RunVars == <<pc, file, lines, line_num, commands, kept, usage, window, out, exc>>

\* the uses the Commands under test hold in all
RECURSIVE CountOver(_, _)
CountOver(f, ks) ==
    IF ks = {} THEN 0
    ELSE LET k == CHOOSE x \in ks : TRUE IN f[k].count + CountOver(f, ks \ {k})
TotalUses == CountOver(cmds, DOMAIN cmds)

\* cmds[r].add_use(time, arguments)
AddUse(r, time, arguments) ==
    /\ r \in DOMAIN cmds
    /\ TotalUses < MaxUses
    /\ LET a == add_use(heap, cmds[r], time, arguments)
       IN  /\ heap' = a.heap
           /\ cmds' = [cmds EXCEPT ![r] = a.cmd]
    /\ UNCHANGED RunVars

\* der = cmds[r].get_uses_from_date(date, stop_date), the clock reading `now`
GetUsesFromDate(r, date, stop_date, now) ==
    /\ r \in DOMAIN cmds
    /\ LET res == get_uses_from_date(heap, Live, cmds[r], date, stop_date, now)
           after == [x \in DOMAIN cmds \cup {"der"} |->
                        IF x = "der" THEN res.cmd ELSE cmds[x]]
       IN  /\ cmds' = after
           /\ heap' = Reclaim(res.heap, UNION {CmdRefs(after[x]) : x \in DOMAIN after})
    /\ UNCHANGED RunVars

\* der = cmds[r].get_last_n_uses(n_uses)
GetLastNUses(r, n_uses) ==
    /\ r \in DOMAIN cmds
    /\ LET res == get_last_n_uses(heap, Live, cmds[r], n_uses)
           after == [x \in DOMAIN cmds \cup {"der"} |->
                        IF x = "der" THEN res.cmd ELSE cmds[x]]
       IN  /\ cmds' = after
           /\ heap' = Reclaim(res.heap, UNION {CmdRefs(after[x]) : x \in DOMAIN after})
    /\ UNCHANGED RunVars

NextRecord ==
    \/ \E r \in {"src", "der"}, t \in Times, a \in ArgLists : AddUse(r, t, a)
    \/ \E r \in {"src", "der"}, d \in Times, s \in Times :
          GetUsesFromDate(r, d, Some(s), s)
    \/ \E r \in {"src", "der"}, d \in Times : GetUsesFromDate(r, d, None, Clock)
    \/ \E r \in {"src", "der"}, n \in 0..(MaxUses + 1) : GetLastNUses(r, n)

SpecRecord == InitRecord /\ [][NextRecord]_vars

(***************************************************************************)
(* The run: main, from reading the history to the last report.             *)
(***************************************************************************)
\* the lines a history file is made of: a command, a timestamp inside the
\* reporting window (2024-07-15 00:00:00) and one before it, as fish writes
\* them; a command whose text is a number; a timestamp under the marker
\* "- when: "; and a line of another kind
RawLines == {"- cmd: ls -a", "  when: 1721001600", "  when: 1720000000",
             "- cmd: 1721001700", "- when: 1721001600", "  paths:"}

Files == {None} \cup {Some(f) : f \in UNION {[1..n -> RawLines] : n \in 0..MaxLines}}

\* the start date main passes to analyze_commands
ReportStart == datetime(2024, 7, 15, 0, 0, 0)

\* what get_terminal_dimensions gives as the width: its fallback, or a terminal's
TermWidths == {80, 100}

\* how many of the most used commands main reports
TopShown == 5

Init ==
    /\ heap = EmptyHeap
    /\ cmds = <<>>
    /\ pc = "read"
    /\ file \in Files
    /\ lines = <<>>
    /\ line_num = 0
    /\ commands = <<>>
    /\ kept = <<>>
    /\ usage = <<>>
    /\ \E w \in TermWidths : window = [start |-> ReportStart, end |-> Clock, width |-> w]
    /\ out = <<>>
    /\ exc = None

\* an exception nothing catches ends the run
Raise(e) ==
    /\ pc' = "raised"
    /\ exc' = e

\* lines = read_history_file(HISTORY_FILE)
ReadHistoryFile ==
    /\ pc = "read"
    /\ lines' = read_history_file(file)
    /\ out' = Append(out, [fn |-> "read_history_file", found |-> file # None,
                           read |-> IF file = None THEN 0 ELSE Len(file[1])])
    /\ pc' = "parse"
    /\ UNCHANGED <<heap, cmds, file, line_num, commands, kept, usage, window, exc>>

\* one iteration of the loop of parse_commands
ParseLine ==
    /\ pc = "parse"
    /\ line_num < Len(lines)
    /\ LET res == parse_line(heap, commands, lines, line_num)
       IN  IF res.exc # None
           THEN /\ Raise(res.exc)
                /\ UNCHANGED <<heap, commands, line_num>>
           ELSE /\ heap' = res.heap
                /\ commands' = res.commands
                /\ line_num' = line_num + 1
                /\ UNCHANGED <<pc, exc>>
    /\ UNCHANGED <<cmds, file, lines, kept, usage, window, out>>

\* parse_commands returns; main prints how many commands it found
ParseReturn ==
    /\ pc = "parse"
    /\ line_num = Len(lines)
    /\ out' = Append(out, [fn |-> "main", found |-> Len(commands)])
    /\ pc' = "analyze"
    /\ UNCHANGED <<heap, cmds, file, lines, line_num, commands, kept, usage, window, exc>>

\* analyze_commands up to its first report: the commands kept and the sums
AnalyzeCommands ==
    /\ pc = "analyze"
    /\ LET k == KeepLoop(heap, commands, <<>>, window.start, window.end, 1)
           live == UNION ({CmdRefs(commands[j]) : j \in 1..Len(commands)}
                          \cup {CmdRefs(k.kept[j]) : j \in 1..Len(k.kept)})
       IN  /\ kept' = k.kept
           /\ heap' = Reclaim(k.heap, live)
           /\ usage' = [calendar_usage |-> SumCounters(k.heap, k.kept, "calendar_usage", Len(k.kept)),
                        weekly_usage |-> SumCounters(k.heap, k.kept, "weekly_usage", Len(k.kept)),
                        hourly_usage |-> SumCounters(k.heap, k.kept, "hourly_usage", Len(k.kept))]
    /\ pc' = "print_calendar"
    /\ UNCHANGED <<cmds, file, lines, line_num, commands, window, out, exc>>

\* print_calendar(calendar_usage, start_datetime, end_datetime)
PrintCalendar ==
    /\ pc = "print_calendar"
    /\ LET res == print_calendar(usage.calendar_usage, window.start, window.end)
       IN  IF res = None
           THEN /\ Raise(Raised("IndexError", "print_calendar"))
                /\ UNCHANGED out
           ELSE /\ out' = Append(out, [fn |-> "print_calendar", blocks |-> res[1]])
                /\ pc' = "print_week_usage"
                /\ UNCHANGED exc
    /\ UNCHANGED <<heap, cmds, file, lines, line_num, commands, kept, usage, window>>

\* print_week_usage(weekly_usage)
PrintWeekUsage ==
    /\ pc = "print_week_usage"
    /\ LET res == print_week_usage(usage.weekly_usage, window.width)
       IN  IF res = None
           THEN /\ Raise(Raised("IndexError", "print_week_usage"))
                /\ UNCHANGED out
           ELSE /\ out' = Append(out, [fn |-> "print_week_usage", rows |-> res[1]])
                /\ pc' = "print_time_usage"
                /\ UNCHANGED exc
    /\ UNCHANGED <<heap, cmds, file, lines, line_num, commands, kept, usage, window>>

\* print_time_usage(hourly_usage); analyze_commands returns kept_commands
PrintTimeUsage ==
    /\ pc = "print_time_usage"
    /\ LET res == print_time_usage(usage.hourly_usage, window.width)
       IN  IF res = None
           THEN /\ Raise(Raised("IndexError", "print_time_usage"))
                /\ UNCHANGED out
           ELSE /\ out' = Append(out, [fn |-> "print_time_usage", rows |-> res[1]])
                /\ pc' = "report"
                /\ UNCHANGED exc
    /\ UNCHANGED <<heap, cmds, file, lines, line_num, commands, kept, usage, window>>

\* used_commands.sort(reverse=True, key=count): stable, highest count first
RECURSIVE SortedByCount(_)
SortedByCount(s) ==
    IF s = <<>> THEN <<>>
    ELSE LET rest == SortedByCount(SubSeq(s, 1, Len(s) - 1))
             x == s[Len(s)]
             k == Cardinality({j \in 1..Len(rest) : rest[j].count >= x.count})
         IN  SubSeq(rest, 1, k) \o <<x>> \o SubSeq(rest, k + 1, Len(rest))

\* the last loop of main: name, count and hourly chart of the top commands
MainReport ==
    /\ pc = "report"
    /\ LET used == SortedByCount(kept)
           top == SubSeq(used, 1, Min(TopShown, Len(used)))
       IN  out' = out \o [i \in 1..Len(top) |->
                            [fn |-> "main", name |-> top[i].name, count |-> top[i].count,
                             rows |-> print_time_usage(heap[top[i].hourly_usage],
                                                       window.width)]]
    /\ pc' = "done"
    /\ UNCHANGED <<heap, cmds, file, lines, line_num, commands, kept, usage, window, exc>>

Next ==
    \/ ReadHistoryFile
    \/ ParseLine
    \/ ParseReturn
    \/ AnalyzeCommands
    \/ PrintCalendar
    \/ PrintWeekUsage
    \/ PrintTimeUsage
    \/ MainReport

Spec == Init /\ [][Next]_vars

(***************************************************************************)
(* print_calendar on its own, one year of the loop at a time.              *)
(***************************************************************************)
\* the years rendered: a stretch of consecutive years, and beside it two
\* century years that are not leap years, one that is, and a leap year that
\* starts on a Sunday
YearSet == FirstYear..(FirstYear + SpanYears) \cup {1900, 2000, 2012, 2100}

\* the calendar_usage mappings handed in: none, one day, two days
CalendarInputs ==
    {Counter,
     [d \in {Ymd2Ord(2024, 7, 15)} |-> 1],
     [d \in {Ymd2Ord(2024, 7, 15), Ymd2Ord(2025, 1, 1)} |->
         IF d = Ymd2Ord(2024, 7, 15) THEN 2 ELSE 1]}

InitCalendar ==
    /\ heap = EmptyHeap
    /\ cmds = <<>>
    /\ pc = "print_calendar"
    /\ file = None
    /\ lines = <<>>
    /\ line_num = 0
    /\ commands = <<>>
    /\ kept = <<>>
    /\ \E c \in CalendarInputs :
          usage = [calendar_usage |-> c, weekly_usage |-> Counter, hourly_usage |-> Counter]
    /\ \E ys \in YearSet, span \in 0..2 :
          window = [start |-> datetime(ys, 7, 15, 0, 0, 0),
                    end |-> datetime(ys + span - 1, 7, 16, 12, 0, 0), width |-> 80]
    /\ out = <<>>
    /\ exc = None

CalendarFrame == <<heap, cmds, file, lines, line_num, commands, kept, usage, window>>

\* line 163: the highest count of the mapping, or IndexError
CalendarEnter ==
    /\ pc = "print_calendar"
    /\ IF MostCommonCount(usage.calendar_usage) = None
       THEN Raise(Raised("IndexError", "print_calendar"))
       ELSE pc' = "year" /\ UNCHANGED exc
    /\ UNCHANGED <<out, CalendarFrame>>

\* one iteration of the loop over years
CalendarYear ==
    /\ pc = "year"
    /\ Len(out) < YearOf(window.end) - YearOf(window.start) + 1
    /\ out' = Append(out, print_calendar_year(usage.calendar_usage,
                                              MostCommonCount(usage.calendar_usage)[1],
                                              YearOf(window.start) + Len(out)))
    /\ UNCHANGED <<pc, exc, CalendarFrame>>

\* the loop is over
CalendarReturn ==
    /\ pc = "year"
    /\ Len(out) >= YearOf(window.end) - YearOf(window.start) + 1
    /\ pc' = "returned"
    /\ UNCHANGED <<out, exc, CalendarFrame>>

NextCalendar == CalendarEnter \/ CalendarYear \/ CalendarReturn

SpecCalendar == InitCalendar /\ [][NextCalendar]_vars

(***************************************************************************)
(* Properties of the Command record.                                       *)
(***************************************************************************)
\* the records of the state, with their containers read off the heap
Rec(r) == View(heap, cmds[r])

\* max(timestamp for (timestamp, _) in uses), for a non-empty list
MaxTime(uses) ==
    (CHOOSE i \in 1..Len(uses) : \A j \in 1..Len(uses) : DtLeq(uses[j][1], uses[i][1]))

IsSortedByTime(uses) ==
    \A i \in 1..(Len(uses) - 1) : DtLeq(uses[i][1], uses[i + 1][1])

\* C1: after any sequence of add_use calls on a fresh record, count equals
\* the length of uses and the sum of the values of calendar_usage, of
\* weekly_usage and of hourly_usage.
C1_CountMatchesBuckets ==
    \A r \in DOMAIN cmds :
        /\ Rec(r).count = Len(Rec(r).uses)
        /\ Rec(r).count = CounterSum(Rec(r).calendar_usage)
        /\ Rec(r).count = CounterSum(Rec(r).weekly_usage)
        /\ Rec(r).count = CounterSum(Rec(r).hourly_usage)

\* two uses on one date, at two hours
C1_Witness ==
    /\ Rec("src").count = 2
    /\ \E d \in DOMAIN Rec("src").calendar_usage : Rec("src").calendar_usage[d] = 2
    /\ Cardinality(DOMAIN Rec("src").hourly_usage) = 2

\* C4 as stated: for every record, source or derived, most_recent_use is the
\* maximum timestamp among its uses when uses is non-empty and None when
\* uses is empty.
C4_MostRecentIsMax ==
    \A r \in DOMAIN cmds :
        IF Rec(r).uses = <<>>
        THEN Rec(r).most_recent_use = None
        ELSE Rec(r).most_recent_use = Some(Rec(r).uses[MaxTime(Rec(r).uses)][1])

\* C4 as amended: the record built by add_use alone has most_recent_use equal
\* to the maximum timestamp of its uses, and None while it has none; every
\* record, derived ones included, with uses has a most_recent_use that no
\* timestamp of its uses exceeds.
C4_MostRecentAmended ==
    /\ IF Rec("src").uses = <<>>
       THEN Rec("src").most_recent_use = None
       ELSE Rec("src").most_recent_use = Some(Rec("src").uses[MaxTime(Rec("src").uses)][1])
    /\ \A r \in DOMAIN cmds :
          Rec(r).uses # <<>> =>
              /\ Rec(r).most_recent_use # None
              /\ \A i \in 1..Len(Rec(r).uses) :
                    DtLeq(Rec(r).uses[i][1], Rec(r).most_recent_use[1])

\* a derived record whose most_recent_use, carried over from its source, is
\* later than each of its own uses, beside a source whose uses arrived out
\* of order
C4_Witness ==
    /\ "der" \in DOMAIN cmds
    /\ Rec("src").count = 2
    /\ ~IsSortedByTime(Rec("src").uses)
    /\ Rec("der").uses # <<>>
    /\ DtLess(Rec("der").uses[MaxTime(Rec("der").uses)][1], Rec("der").most_recent_use[1])

\* C5: get_uses_from_date leaves its source record unchanged (count, uses in
\* their order, the three buckets, flags, most_recent_use), whatever the
\* start and stop; and an add_use on the record returned does not change the
\* source, nor an add_use on the source the record returned.
C5_SourceUnchanged ==
    \A r \in DOMAIN cmds, d \in Times, s \in {None} \cup {Some(t) : t \in Times} :
        LET res == get_uses_from_date(heap, Live, cmds[r], d, s, Clock)
        IN  /\ View(res.heap, cmds[r]) = View(heap, cmds[r])
            /\ \A t \in Times :
                  /\ View(add_use(res.heap, res.cmd, t, <<"-v", "x">>).heap, cmds[r])
                        = View(heap, cmds[r])
                  /\ View(add_use(res.heap, cmds[r], t, <<"-v", "x">>).heap, res.cmd)
                        = View(res.heap, res.cmd)

\* a source of two uses out of order, and a record derived from it that
\* kept one of them
C5_Witness ==
    /\ "der" \in DOMAIN cmds
    /\ Rec("src").count = 2
    /\ ~IsSortedByTime(Rec("src").uses)
    /\ Rec("der").count = 1
    /\ Rec("der").uses[1] \in {Rec("src").uses[1], Rec("src").uses[2]}

\* C6: for every n >= 0, get_last_n_uses(n) returns the final n entries of
\* the source's uses sorted ascending by timestamp (all of them when n is at
\* least the source count), so the result's count is min(n, source count).
C6_LastN ==
    [][\A r \in {"src", "der"}, n \in 0..(MaxUses + 1) :
          GetLastNUses(r, n) =>
              LET sorted == SortedByTime(heap[cmds[r].uses])
                  k == Min(n, Len(sorted))
              IN  /\ heap'[cmds'["der"].uses] = SubSeq(sorted, Len(sorted) - k + 1, Len(sorted))
                  /\ cmds'["der"].count = k]_vars

(***************************************************************************)
(* Properties of the parser and of the run.                                *)
(***************************************************************************)
RECURSIVE RecordedUses(_, _)
RecordedUses(dict, i) == IF i = 0 THEN 0 ELSE dict[i].count + RecordedUses(dict, i - 1)

\* C2: parse_commands never fails on a malformed entry: a "- cmd: " line
\* that is the last line, or that is followed by a line whose timestamp
\* payload is not numeric, is skipped and the scan goes on, so that no run
\* ends with an exception raised in parse_commands.
C2_ParserSkipsMalformed ==
    exc # None => exc[1].where # "parse_commands"

ReportingFunctions == {"print_calendar", "print_week_usage", "print_time_usage"}

\* C3: a reporting function given an empty mapping ends in a "no data"
\* outcome the caller skips, so that a run whose window holds no uses (a
\* missing or empty history included) goes on to normal completion: no run
\* ends with an exception raised in a reporting function.
C3_EmptyReportSkipped ==
    exc # None => exc[1].where \notin ReportingFunctions

\* the timestamp marker, as the specification writes it or as a trimmed
\* line of a fish history has it
HasWhenMarker(line) == startswith(line, "- when: ") \/ startswith(line, "when: ")

\* the "- cmd: " lines among the first n that a timestamp line follows
MarkedEntries(n) ==
    Cardinality({i \in 1..n : /\ startswith(lines[i], "- cmd: ")
                              /\ i + 1 <= Len(lines)
                              /\ HasWhenMarker(lines[i + 1])})

\* C9: parse_commands records a use for a "- cmd: " line only when the line
\* right after it carries the timestamp marker, and no other line adds a
\* use: the uses recorded so far are at most the "- cmd: " lines scanned so
\* far that a marked timestamp line follows.
C9_UseNeedsWhenMarker ==
    pc = "parse" => RecordedUses(commands, Len(commands)) <= MarkedEntries(line_num)

(***************************************************************************)
(* Properties of the calendar.                                             *)
(***************************************************************************)
Columns(b) == Len(b.rows[1].cells)
Drawn(b) == {c \in (1..7) \X (1..Columns(b)) : b.rows[c[1]].cells[c[2]].text # " "}
DayAt(b, c) == b.rows[c[1]].cells[c[2]].day

\* C7: the number of week-columns is ceil((D + O) / 7), D the length of the
\* year and O the weekday index of Jan 1; the cell (row, column)
\* stands for the day Jan 1 + (row + 7 * column - O); and the cells drawn
\* are one for each date from Jan 1 to Dec 31, none missing and none twice,
\* every other cell being blank.
C7_GridCoversYear ==
    \A i \in 1..Len(out) :
        LET b == out[i]
            jan1 == Ymd2Ord(b.year, 1, 1)
            dec31 == Ymd2Ord(b.year, 12, 31)
            D == dec31 - jan1 + 1
            O == weekday(datetime(b.year, 1, 1, 0, 0, 0))
        IN  /\ Columns(b) = CeilDiv(D + O, 7)
            /\ \A c \in (1..7) \X (1..Columns(b)) :
                  DayAt(b, c) = jan1 + (c[1] - 1) + 7 * (c[2] - 1) - O
            /\ {DayAt(b, c) : c \in Drawn(b)} = jan1..dec31
            /\ Cardinality(Drawn(b)) = D

\* print_calendar has returned after drawing a leap year that starts on a
\* Sunday (54 columns) and the year after it
C7_Witness ==
    /\ pc = "returned"
    /\ Len(out) = 2
    /\ out[1].year = 2012
    /\ Columns(out[1]) = 54
    /\ Cardinality(Drawn(out[1])) = 366
    /\ Cardinality(Drawn(out[2])) = 365

\* the day of the week of a date, Sunday 0 to Saturday 6: ordinal 1, the
\* first of January of year 1, is a Monday
DayOfWeekFromSunday(ordinal) == ordinal % 7

\* C8: the weekday index numbers Sunday as 0 through Saturday as 6, as the
\* row labels S M T W T F S do: every date drawn stands on the row whose
\* label is its day of the week.
C8_RowIsDayOfWeek ==
    \A i \in 1..Len(out) :
        \A c \in Drawn(out[i]) : c[1] - 1 = DayOfWeekFromSunday(DayAt(out[i], c))

\* the columns of the header row that hold a label
LabelColumns(b) == {w \in 1..Columns(b) : SubSeq(b.first_row, w + 2, w + 2) # " "}

\* C10: the header row holds exactly twelve labels, January to December in
\* this order with blanks elsewhere, and each month's label stands at the
\* week-column that contains the first day of that month.
C10_MonthLabels ==
    \A i \in 1..Len(out) :
        LET b == out[i]
            at == LabelColumns(b)
        IN  /\ Len(b.first_row) = Columns(b) + 2
            /\ Cardinality(at) = 12
            /\ \A w \in at :
                  LET k == Cardinality({x \in at : x <= w})
                  IN  /\ SubSeq(b.first_row, w + 2, w + 2) = months[k]
                      /\ \E r \in 1..7 :
                            /\ <<r, w>> \in Drawn(b)
                            /\ DayAt(b, <<r, w>>) = Ymd2Ord(b.year, k, 1)

====
